---- MODULE Spec2Model ----
(***************************************************************************)
(* The three local HTTP services of python-whisper/: the transcription     *)
(* server (whisper_server.py), the embedding server (embedding_server.py)  *)
(* and the chat proxy (chat_server.py).  Each is a process of its own; a   *)
(* behaviour of this module is the life of one such process, chosen by     *)
(* `service` in Init.                                                      *)
(***************************************************************************)
EXTENDS Naturals, Sequences, FiniteSets, TLC

\* ------------------------------------------------------------- bounds
NumReqs == 2       \* request slots of the transcription server (threads)
MaxFiles == 2      \* temporary files created during one run
MaxTexts == 3      \* length of a /embed/batch list
MaxTextLen == 2    \* characters of one text
MaxMsgs == 2       \* messages of one /chat/completions request

VARIABLES
    service,          \* which of the three programs this process runs
    proc,             \* "starting" | "ready" | "serving" | "dead"
    whisper_model,    \* whisper_server.py global: "None" | "loaded"
    embedding_model,  \* embedding_server.py global: "None" | "loaded"
    files,            \* the temporary files that exist on disk
    nextFile,         \* the next fresh temporary file name
    req,              \* the /transcribe requests, one per slot
    ollama,           \* the generation runtime: "up" | "down"
    installed,        \* whether OLLAMA_MODEL is in the runtime's model list
    resp              \* the last response of the embedding or chat server

vars == <<service, proc, whisper_model, embedding_model, files, nextFile, req,
          ollama, installed, resp>>

Services == {"whisper", "embedding", "chat"}
Reqs == 1..NumReqs
None == 0          \* Python's None for a path

\* ===================================================== whisper_server.py

\* A request slot with no request in it.
IdleReq ==
    [pc |-> "idle", kind |-> "none", temp_file_path |-> None, dl |-> None,
     created |-> {}, fetch |-> "none", model_called |-> FALSE,
     exc |-> "none", status |-> 0, body |-> "none", escaped |-> FALSE,
     transcribed |-> FALSE]

\* return jsonify(...), code : the handler returns a response.
Respond(q, code, kind) ==
    [q EXCEPT !.pc = "done", !.status = code, !.body = kind]

\* An exception reaches the handler's except clause.
Raise(q, what) == [q EXCEPT !.pc = "except", !.exc = what]

\* An exception leaves the handler: the framework answers with its own 500.
Escape(q, what) ==
    [q EXCEPT !.pc = "done", !.status = 500, !.body = "framework",
              !.exc = what, !.escaped = TRUE]

\* load_whisper_model with the exception logged and not raised again.
LoadWhisperResultSwallowed(ok) ==
    IF ok THEN [model |-> "loaded", proc |-> "ready"]
          ELSE [model |-> "None", proc |-> "ready"]

\* load_whisper_model: the global is assigned on success; on failure the
\* exception is logged and raised again, which ends the process.
LoadWhisperResult(ok) ==
    IF ok THEN [model |-> "loaded", proc |-> "ready"]
          ELSE [model |-> "None", proc |-> "dead"]

LoadWhisperModel ==
    /\ service = "whisper" /\ proc = "starting"
    /\ \E ok \in BOOLEAN :
          /\ whisper_model' = LoadWhisperResult(ok).model
          /\ proc' = LoadWhisperResult(ok).proc
    /\ UNCHANGED <<service, embedding_model, files, nextFile, req, ollama,
                   installed, resp>>

\* app.run(...) of whisper_server.py
RunWhisper ==
    /\ service = "whisper" /\ proc = "ready"
    /\ proc' = "serving"
    /\ UNCHANGED <<service, whisper_model, embedding_model, files, nextFile,
                   req, ollama, installed, resp>>

WhisperIdle(r) ==
    service = "whisper" /\ proc = "serving" /\ req[r].pc = "idle"

WhisperRest == <<service, proc, whisper_model, embedding_model, ollama,
                 installed, resp>>

\* 'audio_file' in request.files: the upload is saved to a new temporary
\* file; temp_file_path is assigned only after save() returned.
SaveUpload(r) ==
    /\ WhisperIdle(r)
    /\ nextFile <= MaxFiles
    /\ files' = files \cup {nextFile}
    /\ nextFile' = nextFile + 1
    /\ \E saved \in BOOLEAN :
          LET q == [req[r] EXCEPT !.kind = "upload", !.created = {nextFile}]
          IN req' = [req EXCEPT ![r] =
                IF saved
                THEN [q EXCEPT !.pc = "have_source",
                               !.temp_file_path = nextFile]
                ELSE Raise(q, "save")]
    /\ UNCHANGED WhisperRest

\* download_audio_file, up to the creation of the temporary file:
\* requests.get may raise, raise_for_status raises on a non-success status,
\* and only then is the file created.
FetchOutcomes == {"conn_error", "http_error", "ok"}

\* download_audio_file with the temporary file opened before the status
\* check.
FetchCreatesFileFirst(f) == f \in {"http_error", "ok"}

\* The fetches after which download_audio_file creates its temporary file:
\* NamedTemporaryFile comes after raise_for_status.
FetchCreatesFile(f) == f = "ok"

DownloadStart(r) ==
    /\ WhisperIdle(r)
    /\ \E f \in FetchOutcomes :
          LET made == FetchCreatesFile(f)
              q == [req[r] EXCEPT !.kind = "url", !.fetch = f,
                                  !.created = IF made THEN {nextFile} ELSE {}]
          IN /\ made => nextFile <= MaxFiles
             /\ files' = IF made THEN files \cup {nextFile} ELSE files
             /\ nextFile' = IF made THEN nextFile + 1 ELSE nextFile
             /\ req' = [req EXCEPT ![r] =
                   IF f = "ok"
                   THEN [q EXCEPT !.pc = "streaming", !.dl = nextFile]
                   ELSE Raise(q, f)]
    /\ UNCHANGED WhisperRest

\* download_audio_file, the chunk loop and the return: the path reaches
\* transcribe() only when every chunk was written.
StreamDone(r) ==
    /\ service = "whisper" /\ req[r].pc = "streaming"
    /\ \E ok \in BOOLEAN :
          req' = [req EXCEPT ![r] =
                IF ok
                THEN [@ EXCEPT !.pc = "have_source",
                               !.temp_file_path = req[r].dl]
                ELSE Raise(@, "download")]
    /\ UNCHANGED <<files, nextFile>>
    /\ UNCHANGED WhisperRest

\* request.is_json and request.json raises BadRequest on a body that does
\* not parse; BadRequest is an Exception and reaches the except clause.
BadJson(r) ==
    /\ WhisperIdle(r)
    /\ req' = [req EXCEPT ![r] = Raise([@ EXCEPT !.kind = "json_bad"],
                                       "bad_json")]
    /\ UNCHANGED <<files, nextFile>>
    /\ UNCHANGED WhisperRest

\* The else branch: no upload, and no JSON body or one without audio_url.
NoSourceKinds == {"no_body", "json_other"}

NoSource(r) ==
    /\ WhisperIdle(r)
    /\ \E k \in NoSourceKinds :
          req' = [req EXCEPT ![r] =
                     Respond([@ EXCEPT !.kind = k], 400, "error")]
    /\ UNCHANGED <<files, nextFile>>
    /\ UNCHANGED WhisperRest

\* if not whisper_model: return ..., 500   (no clean-up on this return)
CheckModel(r) ==
    /\ service = "whisper" /\ req[r].pc = "have_source"
    /\ req' = [req EXCEPT ![r] =
          IF whisper_model = "None"
          THEN Respond(@, 500, "error")
          ELSE [@ EXCEPT !.pc = "transcribing", !.model_called = TRUE]]
    /\ UNCHANGED <<files, nextFile>>
    /\ UNCHANGED WhisperRest

\* transcribe_audio_file: the model reads the file; any failure is raised.
TranscribeDone(r) ==
    /\ service = "whisper" /\ req[r].pc = "transcribing"
    /\ \E ok \in BOOLEAN :
          /\ ok => req[r].temp_file_path \in files
          /\ req' = [req EXCEPT ![r] =
                IF ok THEN [@ EXCEPT !.pc = "cleanup", !.transcribed = TRUE]
                      ELSE Raise(@, "transcribe")]
    /\ UNCHANGED <<files, nextFile>>
    /\ UNCHANGED WhisperRest

\* if temp_file_path and os.path.exists(temp_file_path)
MustUnlink(q) == q.temp_file_path # None /\ q.temp_file_path \in files

\* Clean-up with temp_file_path kept in a module global instead of a local:
\* the path deleted is the one assigned last, by whichever request.
CleanupSharedPath(r) ==
    /\ service = "whisper" /\ req[r].pc = "cleanup"
    /\ IF nextFile - 1 \in files
       THEN \E unlinked \in BOOLEAN :
              IF unlinked
              THEN /\ files' = files \ {nextFile - 1}
                   /\ req' = [req EXCEPT ![r] = Respond(@, 200, "result")]
              ELSE /\ files' = files
                   /\ req' = [req EXCEPT ![r] = Raise(@, "unlink")]
       ELSE /\ files' = files
            /\ req' = [req EXCEPT ![r] = Respond(@, 200, "result")]
    /\ UNCHANGED nextFile
    /\ UNCHANGED WhisperRest

\* Clean-up on the success path, then the 200 response.  os.unlink may
\* raise; here it is still inside the try block.
Cleanup(r) ==
    /\ service = "whisper" /\ req[r].pc = "cleanup"
    /\ IF MustUnlink(req[r])
       THEN \E unlinked \in BOOLEAN :
              IF unlinked
              THEN /\ files' = files \ {req[r].temp_file_path}
                   /\ req' = [req EXCEPT ![r] = Respond(@, 200, "result")]
              ELSE /\ files' = files
                   /\ req' = [req EXCEPT ![r] = Raise(@, "unlink")]
       ELSE /\ files' = files
            /\ req' = [req EXCEPT ![r] = Respond(@, 200, "result")]
    /\ UNCHANGED nextFile
    /\ UNCHANGED WhisperRest

\* The except clause: clean-up, then the 500 response.  Nothing catches
\* an os.unlink that raises here.
Except(r) ==
    /\ service = "whisper" /\ req[r].pc = "except"
    /\ IF MustUnlink(req[r])
       THEN \E unlinked \in BOOLEAN :
              IF unlinked
              THEN /\ files' = files \ {req[r].temp_file_path}
                   /\ req' = [req EXCEPT ![r] =
                                 Respond(@, 500, "success_false")]
              ELSE /\ files' = files
                   /\ req' = [req EXCEPT ![r] = Escape(@, "unlink")]
       ELSE /\ files' = files
            /\ req' = [req EXCEPT ![r] = Respond(@, 500, "success_false")]
    /\ UNCHANGED nextFile
    /\ UNCHANGED WhisperRest

\* The response is sent; the slot takes the next request.
Return(r) ==
    /\ service = "whisper" /\ req[r].pc = "done"
    /\ req' = [req EXCEPT ![r] = IdleReq]
    /\ UNCHANGED <<files, nextFile>>
    /\ UNCHANGED WhisperRest

NextWhisper ==
    \/ LoadWhisperModel
    \/ RunWhisper
    \/ \E r \in Reqs :
          \/ SaveUpload(r)
          \/ DownloadStart(r)
          \/ StreamDone(r)
          \/ BadJson(r)
          \/ NoSource(r)
          \/ CheckModel(r)
          \/ TranscribeDone(r)
          \/ Cleanup(r)
          \/ Except(r)
          \/ Return(r)

\* =================================================== embedding_server.py

Chars == {" ", "a"}
SeqsUpTo(S, n) == UNION {[1..k -> S] : k \in 0..n}
\* A text is a sequence of characters.
Texts == SeqsUpTo(Chars, MaxTextLen)

RECURSIVE LStrip(_)
LStrip(s) == IF s # <<>> /\ Head(s) = " " THEN LStrip(Tail(s)) ELSE s

RECURSIVE RStrip(_)
RStrip(s) ==
    IF s # <<>> /\ s[Len(s)] = " " THEN RStrip(SubSeq(s, 1, Len(s) - 1))
                                    ELSE s

\* str.strip(): the text without its leading and trailing whitespace.
Strip(s) == RStrip(LStrip(s))

\* Python's truth value of a str.
Truthy(s) == s # <<>>

\* The filter written as `if text`: whitespace-only texts stay.
RECURSIVE ValidTextsNoStrip(_)
ValidTextsNoStrip(texts) ==
    IF texts = <<>> THEN <<>>
    ELSE IF Truthy(Head(texts))
         THEN <<Head(texts)>> \o ValidTextsNoStrip(Tail(texts))
         ELSE ValidTextsNoStrip(Tail(texts))

\* [text for text in texts if text and text.strip()]
RECURSIVE ValidTexts(_)
ValidTexts(texts) ==
    IF texts = <<>> THEN <<>>
    ELSE IF Truthy(Head(texts)) /\ Truthy(Strip(Head(texts)))
         THEN <<Head(texts)>> \o ValidTexts(Tail(texts))
         ELSE ValidTexts(Tail(texts))

\* The vector the loaded model computes for one text: the same text gives
\* the same vector, and the model is not looked into further.
Embedding(t) == <<"vector", t>>

\* embedding_model.encode(list): one vector per text, in the list's order.
Encode(texts) == [i \in 1..Len(texts) |-> Embedding(texts[i])]

\* load_embedding_model: as load_whisper_model.
LoadEmbeddingResult(ok) ==
    IF ok THEN [model |-> "loaded", proc |-> "ready"]
          ELSE [model |-> "None", proc |-> "dead"]

EmbeddingRest == <<service, whisper_model, files, nextFile, req, ollama,
                   installed>>

LoadEmbeddingModel ==
    /\ service = "embedding" /\ proc = "starting"
    /\ \E ok \in BOOLEAN :
          /\ embedding_model' = LoadEmbeddingResult(ok).model
          /\ proc' = LoadEmbeddingResult(ok).proc
    /\ UNCHANGED resp
    /\ UNCHANGED EmbeddingRest

\* app.run(...) of embedding_server.py
RunEmbedding ==
    /\ service = "embedding" /\ proc = "ready"
    /\ proc' = "serving"
    /\ UNCHANGED <<embedding_model, resp>>
    /\ UNCHANGED EmbeddingRest

\* The embedding server between two requests.
EmbeddingServing ==
    service = "embedding" /\ proc = "serving" /\ resp.endpoint = "none"

\* The response is sent; the server takes the next request.
Sent ==
    /\ resp.endpoint # "none"
    /\ resp' = [endpoint |-> "none"]
    /\ UNCHANGED <<service, proc, whisper_model, embedding_model, files,
                   nextFile, req, ollama, installed>>

\* GET /health of the embedding server: no try block, nothing that raises.
HealthCheckEmbedding ==
    /\ EmbeddingServing
    /\ resp' = [endpoint |-> "embedding/health", status |-> 200,
                body |-> "health", escaped |-> FALSE,
                model_loaded |-> (embedding_model # "None")]
    /\ UNCHANGED <<proc, embedding_model>>
    /\ UNCHANGED EmbeddingRest

\* The JSON bodies of POST /embed: no text key, or a text.
EmbedBodies ==
    {[kind |-> "no_text", text |-> <<>>]}
        \cup {[kind |-> "text", text |-> t] : t \in Texts}

\* create_embedding
EmbedResponse(model, body, encode_ok) ==
    LET base == [endpoint |-> "/embed", input |-> body, escaped |-> FALSE,
                 encode_calls |-> <<>>, embedding |-> <<>>]
    IN IF model = "None"
       THEN base @@ [status |-> 500, body |-> "error"]
       ELSE IF body.kind = "no_text"
       THEN base @@ [status |-> 400, body |-> "error"]
       ELSE IF ~Truthy(Strip(body.text))
       THEN base @@ [status |-> 400, body |-> "error"]
       ELSE IF ~encode_ok
       THEN [base EXCEPT !.encode_calls = <<body.text>>]
                @@ [status |-> 500, body |-> "success_false"]
       ELSE [base EXCEPT !.encode_calls = <<body.text>>,
                         !.embedding = Embedding(body.text)]
                @@ [status |-> 200, body |-> "success"]

CreateEmbedding ==
    /\ EmbeddingServing
    /\ \E body \in EmbedBodies, encode_ok \in BOOLEAN :
          resp' = EmbedResponse(embedding_model, body, encode_ok)
    /\ UNCHANGED <<proc, embedding_model>>
    /\ UNCHANGED EmbeddingRest

\* The JSON bodies of POST /embed/batch: no texts key, a texts value that
\* is no list, or a list of texts.
BatchBodies ==
    {[kind |-> k, texts |-> <<>>] : k \in {"no_texts", "not_list"}}
        \cup {[kind |-> "list", texts |-> ts] : ts \in SeqsUpTo(Texts, MaxTexts)}

\* create_batch_embeddings
BatchResponse(model, body, encode_ok) ==
    LET base == [endpoint |-> "/embed/batch", input |-> body,
                 escaped |-> FALSE, encode_calls |-> <<>>,
                 embeddings |-> <<>>, count |-> 0, encode_ok |-> encode_ok]
        valid_texts == ValidTexts(body.texts)
    IN IF model = "None"
       THEN base @@ [status |-> 500, body |-> "error"]
       ELSE IF body.kind = "no_texts"
       THEN base @@ [status |-> 400, body |-> "error"]
       ELSE IF body.kind = "not_list" \/ Len(body.texts) = 0
       THEN base @@ [status |-> 400, body |-> "error"]
       ELSE IF Len(valid_texts) = 0
       THEN base @@ [status |-> 400, body |-> "error"]
       ELSE IF ~encode_ok
       THEN [base EXCEPT !.encode_calls = <<valid_texts>>]
                @@ [status |-> 500, body |-> "success_false"]
       ELSE [base EXCEPT !.encode_calls = <<valid_texts>>,
                         !.embeddings = Encode(valid_texts),
                         !.count = Len(Encode(valid_texts))]
                @@ [status |-> 200, body |-> "success"]

CreateBatchEmbeddings ==
    /\ EmbeddingServing
    /\ \E body \in BatchBodies, encode_ok \in BOOLEAN :
          resp' = BatchResponse(embedding_model, body, encode_ok)
    /\ UNCHANGED <<proc, embedding_model>>
    /\ UNCHANGED EmbeddingRest

NextEmbedding ==
    \/ LoadEmbeddingModel
    \/ RunEmbedding
    \/ HealthCheckEmbedding
    \/ CreateEmbedding
    \/ CreateBatchEmbeddings
    \/ Sent

\* ======================================================== chat_server.py

\* check_ollama_running: True exactly when the runtime answers /api/tags
\* with 200; every exception counts as not running.
CheckOllamaRunning(runtime) == runtime = "up"

\* A dict key that the request does not hold.
Absent == "(absent)"
RoleValues == {"system", "user", "assistant", "tool", Absent}
ContentValues == {"hi", "", Absent}
Messages == [role : RoleValues, content : ContentValues]

\* dict.get(key, default)
Get(d, key, default) == IF d[key] = Absent THEN default ELSE d[key]

\* The loop body with the line put in front of the prompt.
PromptStepPrepend(acc, message) ==
    LET role == Get(message, "role", "user")
        content == Get(message, "content", "")
    IN IF role = "system"
       THEN [prompt |-> "System: " \o content \o "\n" \o acc.prompt,
             lines |-> acc.lines + 1]
       ELSE IF role = "user"
       THEN [prompt |-> "Human: " \o content \o "\n" \o acc.prompt,
             lines |-> acc.lines + 1]
       ELSE IF role = "assistant"
       THEN [prompt |-> "Assistant: " \o content \o "\n" \o acc.prompt,
             lines |-> acc.lines + 1]
       ELSE acc

\* The body of the for loop of chat_completions: what one message adds to
\* the prompt.  A role other than the three adds nothing.
PromptStep(acc, message) ==
    LET role == Get(message, "role", "user")
        content == Get(message, "content", "")
    IN IF role = "system"
       THEN [prompt |-> acc.prompt \o "System: " \o content \o "\n",
             lines |-> acc.lines + 1]
       ELSE IF role = "user"
       THEN [prompt |-> acc.prompt \o "Human: " \o content \o "\n",
             lines |-> acc.lines + 1]
       ELSE IF role = "assistant"
       THEN [prompt |-> acc.prompt \o "Assistant: " \o content \o "\n",
             lines |-> acc.lines + 1]
       ELSE acc

RECURSIVE PromptLoop(_, _, _)
PromptLoop(messages, i, acc) ==
    IF i > Len(messages) THEN acc
    ELSE PromptLoop(messages, i + 1, PromptStep(acc, messages[i]))

\* prompt = ""; for message in messages: ...; prompt += "Assistant: "
\* `lines` counts the lines the loop appended.
BuildPrompt(messages) ==
    LET acc == PromptLoop(messages, 1, [prompt |-> "", lines |-> 0])
    IN [prompt |-> acc.prompt \o "Assistant: ", lines |-> acc.lines]

\* The bodies of POST /chat/completions: one that does not parse, an empty
\* JSON object, an object without messages, an object with messages.
ChatBodies ==
    {[kind |-> k, messages |-> <<>>] : k \in {"malformed", "empty", "no_messages"}}
        \cup {[kind |-> "messages", messages |-> ms] :
                 ms \in SeqsUpTo(Messages, MaxMsgs)}

\* What the runtime's generate endpoint does with a request.
GenerateOutcomes == {"200", "non200", "raise"}

\* The check written as `if 'messages' not in data`: an empty array passes.
NoMessagesOnlyMissing(body) == body.kind = "no_messages"

\* messages = data.get('messages', []); if not messages
NoMessages(body) == body.kind = "no_messages" \/ Len(body.messages) = 0

\* chat_completions
ChatResponse(runtime, body, gen) ==
    LET base == [endpoint |-> "/chat/completions", input |-> body,
                 runtime |-> runtime, escaped |-> FALSE,
                 generate_calls |-> <<>>, lines |-> 0]
        built == BuildPrompt(body.messages)
        called == [base EXCEPT !.generate_calls = <<built.prompt>>,
                               !.lines = built.lines]
    IN IF ~CheckOllamaRunning(runtime)
       THEN base @@ [status |-> 500, body |-> "error"]
       ELSE IF body.kind = "malformed"
       THEN base @@ [status |-> 500, body |-> "error"]
       ELSE IF body.kind = "empty"
       THEN base @@ [status |-> 400, body |-> "error"]
       ELSE IF NoMessages(body)
       THEN base @@ [status |-> 400, body |-> "error"]
       ELSE IF gen = "raise"
       THEN called @@ [status |-> 500, body |-> "error"]
       ELSE IF gen = "non200"
       THEN called @@ [status |-> 500, body |-> "error"]
       ELSE called @@ [status |-> 200, body |-> "choices"]

ChatRest == <<service, whisper_model, embedding_model, files, nextFile,
              req>>

\* The __main__ block of chat_server.py: it probes the runtime, logs, and
\* starts the server whatever the probe said.
RunChat ==
    /\ service = "chat" /\ proc = "starting"
    /\ proc' = "serving"
    /\ UNCHANGED <<ollama, installed, resp>>
    /\ UNCHANGED ChatRest

\* The chat server between two requests.
ChatServing == service = "chat" /\ proc = "serving" /\ resp.endpoint = "none"

\* The runtime is a process of its own: it may stop or be started by hand.
RuntimeChanges ==
    /\ service = "chat"
    /\ ollama' = IF ollama = "up" THEN "down" ELSE "up"
    /\ UNCHANGED <<proc, installed, resp>>
    /\ UNCHANGED ChatRest

\* GET /health of the chat server.
HealthCheckChat ==
    /\ ChatServing
    /\ resp' = [endpoint |-> "chat/health", status |-> 200, body |-> "health",
                escaped |-> FALSE,
                ollama_running |-> CheckOllamaRunning(ollama)]
    /\ UNCHANGED <<proc, ollama, installed>>
    /\ UNCHANGED ChatRest

\* A generate call that raises is a call the runtime did not answer.
ChatCompletions ==
    /\ ChatServing
    /\ \E body \in ChatBodies, gen \in GenerateOutcomes :
          /\ resp' = ChatResponse(ollama, body, gen)
          /\ ollama' = IF resp'.generate_calls # <<>> /\ gen = "raise"
                       THEN "down" ELSE ollama
    /\ UNCHANGED <<proc, installed>>
    /\ UNCHANGED ChatRest

\* What GET /api/tags gives: the model list with or without OLLAMA_MODEL,
\* a non-200 status, or an exception.
TagsOutcomes(has_model) ==
    {IF has_model THEN "listed" ELSE "absent", "non200", "raise"}

\* list_models
ModelsResponse(runtime, tags) ==
    LET base == [endpoint |-> "/models", runtime |-> runtime,
                 escaped |-> FALSE]
    IN IF ~CheckOllamaRunning(runtime)
       THEN base @@ [status |-> 200, body |-> "error"]
       ELSE IF tags = "raise"
       THEN base @@ [status |-> 500, body |-> "error"]
       ELSE IF tags = "non200"
       THEN base @@ [status |-> 500, body |-> "error"]
       ELSE base @@ [status |-> 200, body |-> "models"]

ListModels ==
    /\ ChatServing
    /\ \E tags \in TagsOutcomes(installed) :
          /\ resp' = ModelsResponse(ollama, tags)
          /\ ollama' = IF CheckOllamaRunning(ollama) /\ tags = "raise"
                       THEN "down" ELSE ollama
    /\ UNCHANGED <<proc, installed>>
    /\ UNCHANGED ChatRest

\* start_ollama without the `if not check_ollama_running()` guard.
StartOllamaUnguarded(p1, popen_ok, p2) ==
    IF popen_ok
    THEN [ok |-> p2, starts |-> 1, probes |-> <<p1, p2>>]
    ELSE [ok |-> FALSE, starts |-> 1, probes |-> <<p1>>]

\* start_ollama: probe; if the probe failed, Popen and a 3 s sleep; then
\* the result is a second probe.  A Popen that raises gives False.
StartOllama(p1, popen_ok, p2) ==
    IF ~p1
    THEN IF popen_ok
         THEN [ok |-> p2, starts |-> 1, probes |-> <<p1, p2>>]
         ELSE [ok |-> FALSE, starts |-> 1, probes |-> <<p1>>]
    ELSE [ok |-> p2, starts |-> 0, probes |-> <<p1, p2>>]

\* What POST /api/pull does.
PullOutcomes == {"200", "non200", "raise"}

\* ensure_model_available: probe, model list, and a pull when the list
\* lacks OLLAMA_MODEL.
EnsureModelAvailable(p3, tags, pull) ==
    LET r == [ok |-> FALSE, probes |-> <<p3>>, tags |-> "none",
              pulls |-> 0, pull |-> "none"]
    IN IF ~p3 THEN r
       ELSE IF tags = "raise" \/ tags = "non200"
       THEN [r EXCEPT !.tags = tags]
       ELSE IF tags = "absent"
       THEN [r EXCEPT !.tags = tags, !.pulls = 1, !.pull = pull,
                      !.ok = (pull = "200")]
       ELSE [r EXCEPT !.tags = tags, !.ok = TRUE]

NotCalled == [ok |-> FALSE, probes |-> <<>>, tags |-> "none", pulls |-> 0,
              pull |-> "none"]

\* setup_ollama
SetupResponse(p1, popen_ok, p2, p3, tags, pull) ==
    LET start == StartOllama(p1, popen_ok, p2)
        ensure == IF start.ok THEN EnsureModelAvailable(p3, tags, pull)
                              ELSE NotCalled
        base == [endpoint |-> "/setup", escaped |-> FALSE,
                 start |-> start, ensure |-> ensure]
    IN IF ~start.ok
       THEN base @@ [status |-> 500, body |-> "error"]
       ELSE IF ~ensure.ok
       THEN base @@ [status |-> 500, body |-> "error"]
       ELSE base @@ [status |-> 200, body |-> "success"]

\* The runtime as the handler last saw it.
RuntimeAfterSetup(r) ==
    IF r.ensure.probes = <<>>
    THEN IF r.start.probes[Len(r.start.probes)] THEN "up" ELSE "down"
    ELSE IF ~r.ensure.probes[1] \/ r.ensure.tags = "raise"
            \/ r.ensure.pull = "raise"
    THEN "down"
    ELSE "up"

SetupOllama ==
    /\ ChatServing
    /\ \E popen_ok, p2, p3 \in BOOLEAN, tags \in TagsOutcomes(installed),
          pull \in PullOutcomes :
          /\ resp' = SetupResponse(CheckOllamaRunning(ollama), popen_ok, p2,
                                   p3, tags, pull)
          /\ ollama' = RuntimeAfterSetup(resp')
          /\ installed' = (installed \/ resp'.ensure.pull = "200")
    /\ UNCHANGED proc
    /\ UNCHANGED ChatRest

NextChat ==
    \/ RunChat
    \/ RuntimeChanges
    \/ HealthCheckChat
    \/ ChatCompletions
    \/ ListModels
    \/ SetupOllama

\* ================================================================ spec

NoResp == [endpoint |-> "none"]

Init ==
    /\ service \in Services
    /\ proc = "starting"
    /\ whisper_model = "None"
    /\ embedding_model = "None"
    /\ files = {}
    /\ nextFile = 1
    /\ req = [r \in Reqs |-> IdleReq]
    /\ ollama \in (IF service = "chat" THEN {"up", "down"} ELSE {"down"})
    /\ installed \in (IF service = "chat" THEN BOOLEAN ELSE {FALSE})
    /\ resp = NoResp

Next == NextWhisper \/ NextEmbedding \/ NextChat

Spec == Init /\ [][Next]_vars

\* ============================================================== claims

\* The requests whose response is being returned.
Done(r) == req[r].pc = "done"

\* C1: when a POST /transcribe response is returned, on every path, every
\* temporary file created for that request has been deleted.
C1_NoTempFileLeft ==
    \A r \in Reqs : Done(r) => req[r].created \cap files = {}

\* C2: POST /transcribe with an audio_url whose fetch returns a non-success
\* status responds 500 and leaves no temporary file behind.
C2_FailedFetchIs500NoFile ==
    \A r \in Reqs :
        Done(r) /\ req[r].kind = "url" /\ req[r].fetch = "http_error"
            => /\ req[r].status = 500
               /\ req[r].created = {}
               /\ req[r].created \cap files = {}

C2_Witness ==
    \E r \in Reqs :
        /\ Done(r) /\ req[r].kind = "url" /\ req[r].fetch = "http_error"
        /\ req[r].status = 500 /\ req[r].body = "success_false"

\* C3: in all three services every exception raised while handling a
\* request is caught in the handler and answered with a JSON error body
\* and 500; none reaches the framework's default error handler.
C3_NoExceptionEscapes ==
    /\ \A r \in Reqs :
          Done(r) /\ req[r].exc # "none"
              => /\ ~req[r].escaped
                 /\ req[r].status = 500
                 /\ req[r].body \in {"error", "success_false"}
    /\ resp.endpoint # "none" => ~resp.escaped

\* The chat response being returned, if any.
ChatDone == resp.endpoint = "/chat/completions"

\* A body that parses and supplies no messages: messages missing, or an
\* empty array.
SuppliesNoMessages(body) ==
    \/ body.kind \in {"empty", "no_messages"}
    \/ body.kind = "messages" /\ body.messages = <<>>

\* C4 as claimed: POST /chat/completions without messages responds 400 in
\* every state of the runtime and makes no generate call.
C4_NoMessagesIs400 ==
    ChatDone /\ SuppliesNoMessages(resp.input)
        => resp.status = 400 /\ resp.generate_calls = <<>>

\* C4 as amended: the liveness probe comes first.  Without messages the
\* response is 400 when the runtime answered the probe and 500 when it
\* did not; no generate call is made either way.
C4_NoMessagesIs400WhenRuntimeUp ==
    ChatDone /\ SuppliesNoMessages(resp.input)
        => /\ resp.status = (IF resp.runtime = "up" THEN 400 ELSE 500)
           /\ resp.body = "error"
           /\ resp.generate_calls = <<>>

C4_Witness ==
    /\ ChatDone /\ resp.input.kind = "messages" /\ resp.input.messages = <<>>
    /\ resp.runtime = "up" /\ resp.status = 400

\* The label of each role.
RoleLabel ==
    [system |-> "System:", user |-> "Human:", assistant |-> "Assistant:"]

LabelledRoles == DOMAIN RoleLabel

\* The role and the content of a message, a missing role counting as user
\* and a missing content as the empty text.
RoleOf(m) == IF m.role = Absent THEN "user" ELSE m.role
ContentOf(m) == IF m.content = Absent THEN "" ELSE m.content

\* One line per message: label, space, content, newline.
RECURSIVE LinesOf(_)
LinesOf(ms) ==
    IF ms = <<>> THEN ""
    ELSE RoleLabel[RoleOf(Head(ms))] \o " " \o ContentOf(Head(ms)) \o "\n"
             \o LinesOf(Tail(ms))

ExpectedPrompt(ms) == LinesOf(ms) \o "Assistant: "

\* The messages whose role has a label, in input order.
Labelled(ms) == SelectSeq(ms, LAMBDA m : RoleOf(m) \in LabelledRoles)

\* A generate call was made for the request.
Generated == ChatDone /\ resp.generate_calls # <<>>

\* C5 as claimed: for any non-empty message array the prompt sent is one
\* labelled line per message in input order plus the cue "Assistant: ",
\* and the number of message lines equals the number of messages.
C5_OneLinePerMessage ==
    Generated =>
        /\ resp.lines = Len(resp.input.messages)
        /\ Labelled(resp.input.messages) = resp.input.messages
              => resp.generate_calls[1] = ExpectedPrompt(resp.input.messages)

\* C5 as amended: one labelled line per message whose role is system,
\* user or assistant (a missing role counts as user), in input order, plus
\* the cue; a message with another role adds no line.
C5_OneLinePerLabelledMessage ==
    Generated =>
        /\ Len(resp.generate_calls) = 1
        /\ resp.generate_calls[1]
               = ExpectedPrompt(Labelled(resp.input.messages))
        /\ resp.lines = Len(Labelled(resp.input.messages))

C5_Witness ==
    /\ Generated /\ resp.status = 200
    /\ Len(resp.input.messages) = 2
    /\ resp.input.messages[1] = [role |-> "system", content |-> "hi"]
    /\ resp.input.messages[2] = [role |-> "user", content |-> ""]
    /\ resp.generate_calls = <<"System: hi\nHuman: \nAssistant: ">>

\* A text that is empty or whitespace only.
Blank(t) == \A i \in 1..Len(t) : t[i] = " "

\* The texts of a list that are not blank, in their original order.
Survivors(ts) == SelectSeq(ts, LAMBDA t : ~Blank(t))

\* The batch response being returned for a list of texts, if any.
BatchDone == resp.endpoint = "/embed/batch" /\ resp.input.kind = "list"

\* C6: POST /embed/batch with N texts of which k are blank: 400 and no
\* encode call when N = 0 or k = N; otherwise one encode call on the N-k
\* survivors in their order, and N-k vectors with count = N-k, the i-th
\* vector that of the i-th survivor (a 500 when the encode call raises).
C6_BatchDropsBlanksKeepsOrder ==
    BatchDone =>
        LET ts == resp.input.texts
            N == Len(ts)
            surv == Survivors(ts)
            k == N - Len(surv)
        IN IF N = 0 \/ k = N
           THEN resp.status = 400 /\ resp.encode_calls = <<>>
           ELSE /\ resp.encode_calls = <<surv>>
                /\ IF resp.encode_ok
                   THEN /\ resp.status = 200
                        /\ Len(resp.embeddings) = N - k
                        /\ resp.count = N - k
                        /\ \A i \in 1..(N - k) :
                              resp.embeddings[i] = Embedding(surv[i])
                   ELSE resp.status = 500 /\ resp.embeddings = <<>>

C6_Witness ==
    /\ BatchDone /\ resp.status = 200
    /\ resp.input.texts = << <<" ">>, <<"a">>, <<" ", "a">> >>
    /\ resp.count = 2
    /\ resp.embeddings = <<Embedding(<<"a">>), Embedding(<<" ", "a">>)>>

\* C7: operational errors are always reported with 500: every chat
\* endpoint that needs the runtime when the runtime is unreachable, and
\* the embedding and transcription endpoints when the model is not loaded.
C7_OperationalErrorsAre500 ==
    /\ resp.endpoint \in {"/chat/completions", "/models"}
          /\ resp.runtime = "down"
          => resp.status = 500 /\ resp.body = "error"
    /\ resp.endpoint = "/setup" /\ ~resp.start.ok
          => resp.status = 500 /\ resp.body = "error"
    /\ resp.endpoint \in {"/embed", "/embed/batch"}
          /\ embedding_model = "None"
          => resp.status = 500
    /\ \A r \in Reqs :
          Done(r) /\ whisper_model = "None"
              /\ req[r].kind \in {"upload", "url"}
              => req[r].status = 500

\* The /setup response being returned, if any.
SetupDone == resp.endpoint = "/setup"

\* All liveness probes of one /setup call, in order.
SetupProbes == resp.start.probes \o resp.ensure.probes

\* C8: one POST /setup runs once through start-then-ensure: at most one
\* start, only after a failed probe; at most one pull, only after a
\* successful probe and a model list without the model; success only if
\* the runtime answered and the model was listed or its pull gave 200;
\* otherwise an error with 500.
C8_SetupRunsOnce ==
    SetupDone =>
        /\ resp.start.starts <= 1
        /\ resp.start.starts = 1 => resp.start.probes[1] = FALSE
        /\ resp.ensure.pulls <= 1
        /\ resp.ensure.pulls = 1
              => /\ resp.ensure.probes = <<TRUE>>
                 /\ resp.ensure.tags = "absent"
        /\ resp.ensure.pulls = 0 <=> resp.ensure.pull = "none"
        /\ Len(SetupProbes) <= 3
        /\ resp.body = "success"
              => /\ resp.status = 200
                 /\ Len(SetupProbes) = 3
                 /\ SetupProbes[2] /\ SetupProbes[3]
                 /\ \/ resp.ensure.tags = "listed"
                    \/ resp.ensure.tags = "absent" /\ resp.ensure.pull = "200"
        /\ resp.body # "success"
              => resp.status = 500 /\ resp.body = "error"

C8_Witness ==
    /\ SetupDone /\ resp.body = "success"
    /\ resp.start.starts = 1 /\ resp.ensure.pulls = 1
    /\ resp.ensure.pull = "200"

\* A request is being handled.
Handling ==
    \/ \E r \in Reqs : req[r].pc # "idle"
    \/ resp.endpoint \in {"/embed", "/embed/batch", "embedding/health"}

\* The model handle of the process, for the two services that load one.
Handle == IF service = "whisper" THEN whisper_model ELSE embedding_model

\* What holds of the handle in every state of the two services.
HandleState ==
    service \in {"whisper", "embedding"} =>
        /\ proc = "serving" => Handle = "loaded"
        /\ Handling => proc = "serving" /\ Handle = "loaded"
        /\ proc = "dead" => Handle = "None"

\* What holds of every step: the handle changes only from None, during
\* start-up; a dead process stays dead.
HandleStep ==
    service \in {"whisper", "embedding"} =>
        /\ Handle' # Handle => proc = "starting" /\ Handle = "None"
        /\ proc = "dead" => proc' = "dead"
        /\ proc' = "serving" => Handle' = "loaded"

\* C9: in the embedding and transcription services the model handle is
\* assigned once, before the server accepts requests, and never changes
\* afterwards; a failed load ends the process, so whenever a request is
\* being handled the model is loaded.
C9_ModelLoadedOnceBeforeServing == []HandleState /\ [][HandleStep]_vars

C9_Witness ==
    /\ service = "whisper" /\ whisper_model = "loaded"
    /\ \E r \in Reqs : req[r].pc = "transcribing"

\* C10: POST /transcribe with neither an uploaded audio_file nor a JSON
\* body containing audio_url responds 400, without creating a temporary
\* file, fetching a URL or calling the model.
C10_NoSourceIs400 ==
    \A r \in Reqs :
        Done(r) /\ req[r].kind \in {"no_body", "json_other", "json_bad"}
            => /\ req[r].status = 400
               /\ req[r].created = {}
               /\ req[r].fetch = "none"
               /\ ~req[r].model_called

\* A request whose os.unlink of the temporary file failed: the failure of
\* either clean-up is what the request carries as its exception.
DeletionFailed(r) == Done(r) /\ req[r].exc = "unlink"

\* C11: a failure to delete the temporary file is not escalated: after a
\* successful transcription the request still returns the successful
\* result, on the error path it still returns the JSON error of the
\* original failure, and the deletion failure never leaves the handler.
C11_DeletionFailureNotEscalated ==
    \A r \in Reqs :
        DeletionFailed(r)
            => /\ ~req[r].escaped
               /\ req[r].transcribed
                     => req[r].status = 200 /\ req[r].body = "result"
               /\ ~req[r].transcribed
                     => req[r].status = 500 /\ req[r].body = "success_false"

\* The temporary file a request holds the path of.
Holds(r) == req[r].temp_file_path

\* Ownership in every state: a request holds only a file it created, the
\* files of two requests are different files, and the file a request is
\* transcribing exists.
OwnedState ==
    /\ \A r \in Reqs : Holds(r) # None => Holds(r) \in req[r].created
    /\ \A r, s \in Reqs : r # s => req[r].created \cap req[s].created = {}
    /\ \A r \in Reqs :
          req[r].pc \in {"transcribing", "cleanup"}
              => Holds(r) # None /\ Holds(r) \in files

\* Ownership in every step: a file that a step deletes is deleted by the
\* request that created it, in its clean-up, while no request is
\* transcribing it; and a file once deleted does not exist again, so it is
\* not deleted a second time.
OwnedStep ==
    /\ \A f \in files \ files' :
          /\ \E r \in Reqs :
                /\ req[r].pc \in {"cleanup", "except"}
                /\ req'[r].pc = "done"
                /\ Holds(r) = f /\ f \in req[r].created
          /\ \A s \in Reqs : req[s].pc = "transcribing" => Holds(s) # f
    /\ \A f \in 1..(nextFile - 1) : f \notin files => f \notin files'
    /\ \A r \in Reqs :
          req'[r].pc = "transcribing" => req'[r].temp_file_path \in req'[r].created

\* C12: under any interleaving of concurrent POST /transcribe requests
\* each temporary file is owned by one request: a request transcribes and
\* deletes only the file it created, no file is deleted while another
\* request is transcribing it, and no file is deleted twice.
C12_TempFileOwnedByOneRequest == []OwnedState /\ [][OwnedStep]_vars

\* Two overlapping requests: r created its file after s did, transcribed
\* it, deleted it and answered 200, while s is still transcribing its own.
C12_Witness ==
    \E r, s \in Reqs :
        /\ r # s
        /\ Done(r) /\ req[r].status = 200 /\ req[r].transcribed
        /\ Holds(r) \notin files
        /\ req[s].pc = "transcribing" /\ Holds(s) \in files
        /\ Holds(s) < Holds(r)
====
